---- MODULE Spec2Model ----
(***************************************************************************)
(* Model of src/src/App.tsx: the query state of the App component          *)
(* (currency, order, page, pageSize), the useGetCoins hook built on        *)
(* useSWR(apiUrl, fetcher, {revalidateOnFocus: false, keepPreviousData:    *)
(* true, errorRetryCount: 3}), the fetcher with its toast, and the table   *)
(* columns' render functions.                                              *)
(*                                                                         *)
(* The request layer is modelled as the hook configures it: a cache keyed  *)
(* by the request URL, one deduplicated request per key (FETCH), the       *)
(* previous data kept while the current key has none (laggyData), and the  *)
(* error retry timers.                                                     *)
(***************************************************************************)
EXTENDS Integers, Sequences, FiniteSets, Bags, TLC

---------------------------------------------------------------------------
(* Program constants *)

PAGINATION_TOTAL == 10000
PAGE_SIZE_OPTIONS == <<5, 10, 20, 50, 100>>
CURRENCY_OPTIONS == <<"usd", "eur">>
ORDER_OPTIONS == <<"market_cap_desc", "market_cap_asc">>
errorRetryCount == 3
baseUrl == "https://api.coingecko.com/api/v3/coins/markets"
InitialPage == 1
InitialPageSize == 10

Range(s) == {s[i] : i \in DOMAIN s}

(* Bounds of the model *)

\* the number of user interactions (selector and pagination changes) explored
MaxChanges == 2

\* the page numbers the user picks in the pagination control
PageChoices == {3, 150}

\* the page sizes the user picks in the size changer
SizeChoices == Range(PAGE_SIZE_OPTIONS) \cap {10, 100}

---------------------------------------------------------------------------
(* Values *)

null == "null"
Undefined == [tag |-> "undefined"]
IsUndefined(d) == d = Undefined

\* Coin records as the API returns them: id, symbol and name are always
\* present, the other fields may be null.
FullCoin ==
  [id |-> "bitcoin", symbol |-> "btc", name |-> "Bitcoin", image |-> "btc.png",
   current_price |-> "42000.5", market_cap |-> "800000", circulating_supply |-> "19000000"]
SparseCoin ==
  [id |-> "obscure", symbol |-> "obs", name |-> "Obscure", image |-> null,
   current_price |-> null, market_cap |-> null, circulating_supply |-> null]

\* The response bodies a successful request may carry.
Bodies == {<<FullCoin>>, <<FullCoin, SparseCoin>>}

\* String.prototype.toUpperCase on the strings of the model.
toUpperCase(text) ==
  CASE text = "btc" -> "BTC"
    [] text = "obs" -> "OBS"
    [] OTHER -> text

\* template-literal conversion of the values the URL interpolates
NumToString(n) == ToString(n)
BoolToString(b) == IF b THEN "true" ELSE "false"

---------------------------------------------------------------------------
(* useGetCoins: the request URL *)

\* variant: per_page and page exchanged in the template
apiUrl_swapped(cur, ord, perPage, pg, sparkline) ==
  baseUrl \o "?vs_currency=" \o cur \o "&order=" \o ord
          \o "&per_page=" \o NumToString(pg) \o "&page=" \o NumToString(perPage)
          \o "&sparkline=" \o BoolToString(sparkline)

apiUrl(cur, ord, perPage, pg, sparkline) ==
  baseUrl \o "?vs_currency=" \o cur \o "&order=" \o ord
          \o "&per_page=" \o NumToString(perPage) \o "&page=" \o NumToString(pg)
          \o "&sparkline=" \o BoolToString(sparkline)

\* App calls useGetCoins without enabled/sparkline: the defaults apply
\* (enabled = true, sparkline = false), so the key is never null.
useGetCoinsKey(cur, ord, perPage, pg) == apiUrl(cur, ord, perPage, pg, FALSE)

---------------------------------------------------------------------------
(* fetcher: axios.get, the toast on failure, the rethrow *)

\* response: [ok |-> BOOLEAN, data |-> the body]; ok is FALSE for a network
\* error and for a non-2xx status (axios rejects on both).
\* variant: the catch block rethrows without the toast
fetcher_silent(response) ==
  IF response.ok
    THEN [thrown |-> FALSE, toast |-> 0, data |-> response.data]
    ELSE [thrown |-> TRUE, toast |-> 0, data |-> Undefined]

fetcher(response) ==
  IF response.ok
    THEN [thrown |-> FALSE, toast |-> 0, data |-> response.data]
    ELSE [thrown |-> TRUE, toast |-> 1, data |-> Undefined]

---------------------------------------------------------------------------
(* App: query state and its handlers *)

VARIABLES
  page, pageSize, currency, order,  \* useState cells of App
  cache,       \* the request cache: key -> [data, error, isValidating, isLoading]
  FETCH,       \* ongoing / deduplicated requests: key -> [state, retryCount, vs_currency]
  timers,      \* pending error-retry timers: a bag of [key, retryCount]
  laggyData,   \* the previously returned data kept by keepPreviousData
  mounted,     \* FALSE once a render has thrown and the tree was unmounted
  toasts,      \* number of 'Error fetching data' notifications the last step emitted
  changes      \* number of user interactions so far

vars == <<page, pageSize, currency, order, cache, FETCH, timers, laggyData,
          mounted, toasts, changes>>

Query == [currency |-> currency, order |-> order, pageSize |-> pageSize, page |-> page]

\* variant: the currency handler also returns to the first page
handleChangeCurrency_resets(q, value) == [q EXCEPT !.currency = value, !.page = 1]

handleChangeCurrency(q, value) == [q EXCEPT !.currency = value]
handleChangeOrder(q, value) == [q EXCEPT !.order = value]
handlePageSizeChange(q, cur, value) == [q EXCEPT !.pageSize = value]
handlePageChange(q, pg) == [q EXCEPT !.page = pg]

\* Pagination: number of pages for a page size, from total = PAGINATION_TOTAL
LastPage(size) == ((PAGINATION_TOTAL - 1) \div size) + 1

\* Pagination, on a page-size change: the current page is limited to the last
\* page of the new size, then onShowSizeChange and onChange are both called.
PaginationShowSizeChange(q, size) ==
  LET cur == IF q.page > LastPage(size) THEN LastPage(size) ELSE q.page
  IN  handlePageChange(handlePageSizeChange(q, cur, size), cur)

KeyOf(q) == useGetCoinsKey(q.currency, q.order, q.pageSize, q.page)
Key == KeyOf(Query)

---------------------------------------------------------------------------
(* useSWR as configured by useGetCoins *)

EmptyEntry == [data |-> Undefined, error |-> FALSE, isValidating |-> FALSE, isLoading |-> FALSE]
Get(c, k) == IF k \in DOMAIN c THEN c[k] ELSE EmptyEntry
Put(c, k, v) == [x \in DOMAIN c \cup {k} |-> IF x = k THEN v ELSE c[x]]
Remove(f, k) == [x \in DOMAIN f \ {k} |-> f[x]]

\* variant: keepPreviousData off
returnedData_noKeep(cachedData, laggy) == cachedData

\* keepPreviousData: true
returnedData(cachedData, laggy) == IF IsUndefined(cachedData) THEN laggy ELSE cachedData

\* const coins: Coin[] = data ? data : []
coinsOf(data) == IF IsUndefined(data) THEN << >> ELSE data.coins

\* variant: a settled request writes to whatever key is current
settleKey_current(requestKey, currentKey) == currentKey

\* the cache key a settled request writes to, given the key it was issued for
\* and the hook's current key
settleKey(requestKey, currentKey) == requestKey

\* variant: isLoading raised on every request, loaded data or not
revalidate_alwaysLoading(c, F, k, cur, retryCount) ==
  IF k \in DOMAIN F
    THEN [cache |-> c, FETCH |-> F, started |-> FALSE]
    ELSE [cache |-> Put(c, k, [Get(c, k) EXCEPT !.isValidating = TRUE, !.isLoading = TRUE]),
          FETCH |-> Put(F, k, [state |-> "pending", retryCount |-> retryCount, vs_currency |-> cur]),
          started |-> TRUE]

\* revalidate with deduplication: a request for k is started unless one is
\* ongoing or within the deduplication interval. isLoading is raised only
\* when the key has no data yet.
revalidate(c, F, k, cur, retryCount) ==
  IF k \in DOMAIN F
    THEN [cache |-> c, FETCH |-> F, started |-> FALSE]
    ELSE [cache |-> Put(c, k, [Get(c, k) EXCEPT
                                 !.isValidating = TRUE,
                                 !.isLoading = IF IsUndefined(Get(c, k).data) THEN TRUE ELSE @]),
          FETCH |-> Put(F, k, [state |-> "pending", retryCount |-> retryCount, vs_currency |-> cur]),
          started |-> TRUE]

\* variant: one retry too many
onErrorRetry_offByOne(tm, k, count) ==
  IF count > errorRetryCount + 1 THEN tm
  ELSE tm (+) SetToBag({[key |-> k, retryCount |-> count]})

\* the error-retry policy with errorRetryCount: 3; count is the number of
\* the retry about to be scheduled
onErrorRetry(tm, k, count) ==
  IF count > errorRetryCount THEN tm
  ELSE tm (+) SetToBag({[key |-> k, retryCount |-> count]})

\* variant: a failure replaces the data by an empty result
errorState_clears(entry) ==
  [entry EXCEPT !.data = [tag |-> "data", url |-> "", vs_currency |-> "", coins |-> << >>],
                !.error = TRUE, !.isValidating = FALSE, !.isLoading = FALSE]

\* what a failed request leaves in the cache entry of its key
errorState(entry) == [entry EXCEPT !.error = TRUE, !.isValidating = FALSE, !.isLoading = FALSE]

---------------------------------------------------------------------------
(* columns: the render functions of the six table columns *)

Cell(text) == [threw |-> FALSE, out |-> text]
Throw == [threw |-> TRUE, out |-> "TypeError"]

renderImage(text) == Cell(text)
renderPlain(text) == Cell(text)
renderSymbol(text) == IF text = null THEN Throw ELSE Cell(toUpperCase(text))
\* `${text.toString().toUpperCase()} ${currency}`
renderPrice(text, cur) == IF text = null THEN Throw ELSE Cell(toUpperCase(text) \o " " \o cur)

RowCells(coin, cur) ==
  << renderImage(coin.image), renderPlain(coin.name), renderSymbol(coin.symbol),
     renderPrice(coin.current_price, cur), renderPlain(coin.market_cap),
     renderPlain(coin.circulating_supply) >>

TableThrows(coins, cur) ==
  \E i \in DOMAIN coins : \E j \in 1..6 : RowCells(coins[i], cur)[j].threw

---------------------------------------------------------------------------
(* What the hook returns and the table shows in the current state *)

Data == returnedData(Get(cache, Key).data, laggyData)
Coins == coinsOf(Data)
isLoading == Get(cache, Key).isLoading
isValidating == Get(cache, Key).isValidating
PriceCells == [i \in DOMAIN Coins |-> renderPrice(Coins[i].current_price, currency)]

\* The render that follows a state or cache update: if a column's render
\* throws, the tree is unmounted; otherwise the layout effect records the
\* current key's cached data as the previous data.
Commit(q, c) ==
  LET cached == Get(c, KeyOf(q)).data
      shown == coinsOf(returnedData(cached, laggyData))
  IN  IF ~mounted THEN UNCHANGED <<mounted, laggyData>>
      ELSE /\ mounted' = ~TableThrows(shown, q.currency)
           /\ laggyData' = IF mounted' /\ ~IsUndefined(cached) THEN cached ELSE laggyData

---------------------------------------------------------------------------
(* Init: the state after the first render and its effect, which starts the *)
(* request for the initial key.                                            *)

InitQuery == [currency |-> CURRENCY_OPTIONS[1], order |-> ORDER_OPTIONS[1],
              pageSize |-> InitialPageSize, page |-> InitialPage]

Init ==
  LET r == revalidate(<< >>, << >>, KeyOf(InitQuery), InitQuery.currency, 0)
  IN  /\ page = InitQuery.page
      /\ pageSize = InitQuery.pageSize
      /\ currency = InitQuery.currency
      /\ order = InitQuery.order
      /\ cache = r.cache
      /\ FETCH = r.FETCH
      /\ timers = EmptyBag
      /\ laggyData = Undefined
      /\ mounted = TRUE
      /\ toasts = 0
      /\ changes = 0

\* A change of the query state: re-render with the new key, whose effect
\* revalidates it.
SetQuery(q) ==
  LET r == revalidate(cache, FETCH, KeyOf(q), q.currency, 0)
  IN  /\ mounted
      /\ changes < MaxChanges
      /\ changes' = changes + 1
      /\ currency' = q.currency
      /\ order' = q.order
      /\ pageSize' = q.pageSize
      /\ page' = q.page
      /\ cache' = r.cache
      /\ FETCH' = r.FETCH
      /\ Commit(q, r.cache)
      /\ toasts' = 0
      /\ UNCHANGED timers

ChangeCurrency ==
  \E v \in Range(CURRENCY_OPTIONS) :
    /\ v # currency
    /\ SetQuery(handleChangeCurrency(Query, v))

ChangeOrder ==
  \E v \in Range(ORDER_OPTIONS) :
    /\ v # order
    /\ SetQuery(handleChangeOrder(Query, v))

ChangePage ==
  \E p \in PageChoices :
    /\ p # page
    /\ p <= LastPage(pageSize)
    /\ SetQuery(handlePageChange(Query, p))

ChangePageSize ==
  \E size \in SizeChoices :
    /\ size # pageSize
    /\ SetQuery(PaginationShowSizeChange(Query, size))

\* A request completes with a 2xx response carrying body.
SettleSuccess ==
  \E k \in DOMAIN FETCH : \E body \in Bodies :
    LET r == fetcher([ok |-> TRUE,
                      data |-> [tag |-> "data", url |-> k,
                                vs_currency |-> FETCH[k].vs_currency, coins |-> body]])
        w == settleKey(k, Key)
        c == Put(cache, w, [data |-> r.data, error |-> FALSE,
                            isValidating |-> FALSE, isLoading |-> FALSE])
    IN  /\ FETCH[k].state = "pending"
        /\ ~r.thrown
        /\ FETCH' = [FETCH EXCEPT ![k].state = "settled"]
        /\ cache' = c
        /\ toasts' = r.toast
        /\ Commit(Query, c)
        /\ UNCHANGED <<page, pageSize, currency, order, timers, changes>>

\* A request fails: network error or non-success status.
SettleFailure ==
  \E k \in DOMAIN FETCH :
    LET r == fetcher([ok |-> FALSE, data |-> Undefined])
        w == settleKey(k, Key)
        c == IF r.thrown
               THEN Put(cache, w, errorState(Get(cache, w)))
               ELSE Put(cache, w, [data |-> r.data, error |-> FALSE,
                                   isValidating |-> FALSE, isLoading |-> FALSE])
    IN  /\ FETCH[k].state = "pending"
        /\ toasts' = r.toast
        /\ FETCH' = IF r.thrown THEN Remove(FETCH, k) ELSE [FETCH EXCEPT ![k].state = "settled"]
        /\ cache' = c
        /\ timers' = IF r.thrown /\ k = Key
                       THEN onErrorRetry(timers, k, FETCH[k].retryCount + 1)
                       ELSE timers
        /\ Commit(Query, c)
        /\ UNCHANGED <<page, pageSize, currency, order, changes>>

\* An error-retry timer fires: it revalidates through the revalidator
\* registered for its key, which exists only while the key is the mounted
\* hook's current key.
RetryTimer ==
  \E t \in BagToSet(timers) :
    LET live == mounted /\ t.key = Key
        r == IF live THEN revalidate(cache, FETCH, t.key, currency, t.retryCount)
             ELSE [cache |-> cache, FETCH |-> FETCH, started |-> FALSE]
    IN  /\ timers' = timers (-) SetToBag({t})
        /\ cache' = r.cache
        /\ FETCH' = r.FETCH
        /\ toasts' = 0
        /\ Commit(Query, r.cache)
        /\ UNCHANGED <<page, pageSize, currency, order, changes>>

\* The deduplication interval of a completed request ends.
DedupeExpire ==
  \E k \in DOMAIN FETCH :
    /\ FETCH[k].state = "settled"
    /\ FETCH' = Remove(FETCH, k)
    /\ toasts' = 0
    /\ UNCHANGED <<page, pageSize, currency, order, cache, timers, laggyData, mounted, changes>>

Next ==
  \/ ChangeCurrency
  \/ ChangeOrder
  \/ ChangePage
  \/ ChangePageSize
  \/ SettleSuccess
  \/ SettleFailure
  \/ RetryTimer
  \/ DedupeExpire

Spec == Init /\ [][Next]_vars

HasPending == \E k \in DOMAIN FETCH : FETCH[k].state = "pending"
HasTimer == timers # EmptyBag

\* The enabling conditions of request completion and of the retry timers.
EnablingConditions ==
  /\ HasPending <=> ENABLED <<SettleSuccess \/ SettleFailure>>_vars
  /\ HasTimer <=> ENABLED <<RetryTimer>>_vars

\* Every issued request eventually completes and every armed timer fires:
\* weak fairness of SettleSuccess \/ SettleFailure and of RetryTimer, each
\* written out as "infinitely often disabled or infinitely often taken",
\* with the enabling conditions above.
FairSpec ==
  /\ Spec
  /\ ([]<>~HasPending \/ []<><<SettleSuccess \/ SettleFailure>>_vars)
  /\ ([]<>~HasTimer \/ []<><<RetryTimer>>_vars)

---------------------------------------------------------------------------
(* Vocabulary of the properties *)

Pending(F, k) == k \in DOMAIN F /\ F[k].state = "pending"

\* the URLs of the GET requests a step sends
Sent == {k \in DOMAIN FETCH' : Pending(FETCH', k) /\ ~Pending(FETCH, k)}

\* the requests a step completes with a failure / with a success
Failed == {k \in DOMAIN FETCH : Pending(FETCH, k) /\ k \notin DOMAIN FETCH'}
Succeeded == {k \in DOMAIN FETCH : Pending(FETCH, k) /\ k \in DOMAIN FETCH' /\ ~Pending(FETCH', k)}

\* the URL the interface description gives for a query
ExpectedUrl(q) ==
  "https://api.coingecko.com/api/v3/coins/markets?vs_currency=" \o q.currency
    \o "&order=" \o q.order \o "&per_page=" \o ToString(q.pageSize)
    \o "&page=" \o ToString(q.page) \o "&sparkline=false"

OneFieldChanged ==
  Cardinality({f \in {"currency", "order", "pageSize", "page"} : Query'[f] # Query[f]}) = 1

---------------------------------------------------------------------------
(* Properties *)

\* C1 as stated: every user action that changes exactly one of currency,
\* order, page, page size sends exactly one GET request, whose URL carries
\* the new value of that field and the old values of the other three.
C1_OneRequestPerChange ==
  [][OneFieldChanged => Sent = {ExpectedUrl(Query')}]_vars

\* C1: a user action that changes exactly one field sends exactly one GET
\* request for the resulting tuple's URL, unless a request for that URL is
\* in flight or still within its deduplication interval, and then sends none.
C1_OneRequestUnlessDeduplicated ==
  [][OneFieldChanged =>
       IF ExpectedUrl(Query') \in DOMAIN FETCH
         THEN Sent = {}
         ELSE Sent = {ExpectedUrl(Query')}]_vars

\* the page was changed to 3 and the request for page 3 is in flight
C1_Witness ==
  /\ changes = 1
  /\ page = 3
  /\ Pending(FETCH, "https://api.coingecko.com/api/v3/coins/markets?vs_currency=usd&order=market_cap_desc&per_page=10&page=3&sparkline=false")

\* C2 as stated: while the current tuple's request is in flight, the table
\* keeps showing the data it showed before (the previous tuple's).
C2_KeepsPreviousData ==
  [][(Pending(FETCH', Key') /\ ~IsUndefined(Data)) => Data' = Data]_vars

\* C2: while the current tuple's request is in flight, the table shows the
\* current tuple's cached result if it has one from an earlier visit, and
\* otherwise keeps showing exactly what it showed before; it never falls
\* back to the empty list once something has been shown.
C2_KeepsPreviousDataUnlessCached ==
  [][Pending(FETCH', Key') =>
       /\ Data' = IF IsUndefined(Get(cache', Key').data) THEN Data ELSE Get(cache', Key').data
       /\ ~IsUndefined(Data) => ~IsUndefined(Data')]_vars

\* the current tuple's first request is in flight and another tuple's data is shown
C2_Witness ==
  /\ mounted
  /\ Pending(FETCH, Key)
  /\ IsUndefined(Get(cache, Key).data)
  /\ ~IsUndefined(Data)
  /\ Data.url # Key
  /\ Coins # << >>

\* C3: a response (success or failure) arriving for a tuple that is not the
\* current one leaves what the hook returns, and so the displayed coin
\* list, unchanged.
C3_StaleResponseNotApplied ==
  [][\A k \in Succeeded \cup Failed : k # Key => (Data' = Data /\ Coins' = Coins)]_vars

\* a response for an abandoned tuple has arrived while the current tuple's
\* request, issued later, is still in flight and nothing has been shown yet
C3_Witness ==
  /\ mounted
  /\ changes >= 1
  /\ Pending(FETCH, Key)
  /\ IsUndefined(Data)
  /\ \E k \in DOMAIN cache : k # Key /\ ~IsUndefined(cache[k].data)

\* C4: a failing request leaves the coin list as it was.
C4_FailureKeepsCoins ==
  [][Failed # {} => Coins' = Coins]_vars

\* the current tuple's request has just failed and earlier data is still shown
C4_Witness ==
  /\ toasts = 1
  /\ Get(cache, Key).error
  /\ Coins # << >>

\* C5: a step in which a request fails emits exactly one notification and
\* leaves the error on its key; every other step emits none.
C5_OneToastPerFailure ==
  [][/\ Failed # {} => (toasts' = 1 /\ \A k \in Failed : Get(cache', k).error)
     /\ Failed = {} => toasts' = 0]_vars

\* a retry attempt has just failed (the next retry, number 2, is scheduled)
\* and was notified
C5_Witness ==
  /\ toasts = 1
  /\ \E t \in BagToSet(timers) : t.retryCount = 2

RetryBounded ==
  /\ \A k \in DOMAIN FETCH : FETCH[k].retryCount \in 0..3
  /\ \A t \in BagToSet(timers) : t.retryCount \in 1..3

Idle ==
  /\ ~Pending(FETCH, Key)
  /\ \A t \in BagToSet(timers) : t.key # Key

\* C6: no request is more than the 3rd retry of its fetch and no 4th retry
\* is ever scheduled; and, every request completing, the fetch of the
\* current tuple ends up idle for good.
C6_RetryBoundedAndIdle == []RetryBounded /\ <>[]Idle

\* the initial fetch has failed four times: no request, no timer left
C6_Witness ==
  /\ changes = 0
  /\ toasts = 1
  /\ Key \notin DOMAIN FETCH
  /\ timers = EmptyBag
  /\ Get(cache, Key).error

\* C7 as stated: changing currency, order or page size changes that field only.
C7_OnlyThatField ==
  [][/\ currency' # currency => (order' = order /\ pageSize' = pageSize /\ page' = page)
     /\ order' # order => (currency' = currency /\ pageSize' = pageSize /\ page' = page)
     /\ pageSize' # pageSize => (currency' = currency /\ order' = order /\ page' = page)]_vars

\* number of pages of 10000 records at a page size
PagesOf(size) == (10000 + size - 1) \div size

\* C7: changing currency or order changes that field only; changing the
\* page size leaves currency and order, and leaves the page number unless
\* it lies beyond the last page of the new size, to which it is then
\* limited; page 3 stays 3.
C7_OnlyThatFieldUpToLastPage ==
  [][/\ currency' # currency => (order' = order /\ pageSize' = pageSize /\ page' = page)
     /\ order' # order => (currency' = currency /\ pageSize' = pageSize /\ page' = page)
     /\ pageSize' # pageSize =>
          /\ currency' = currency /\ order' = order
          /\ page' = IF page > PagesOf(pageSize') THEN PagesOf(pageSize') ELSE page
          /\ page = 3 => page' = 3]_vars

\* on page 3, the page size was changed to 100
C7_Witness ==
  /\ changes = 2
  /\ page = 3
  /\ pageSize = 100

\* C8: rendering the table never throws, so the tree stays mounted.
C8_RenderNeverThrows == mounted /\ ~TableThrows(Coins, currency)

\* C9 as stated: loading is true only while the first fetch of the current
\* tuple is outstanding: a request is in flight and, unless it is a retry,
\* no earlier request of this tuple has ended.
C9_LoadingOnlyFirstFetch ==
  isLoading =>
    /\ isValidating
    /\ Pending(FETCH, Key)
    /\ FETCH[Key].retryCount = 0 => ~Get(cache, Key).error

\* C9: loading is true only while a request for the current tuple is in
\* flight and no data has been loaded for that tuple yet, whether it is the
\* tuple's first fetch, a retry, or a later fetch after failures; and
\* loading implies validating.
C9_LoadingOnlyWithoutData ==
  isLoading =>
    /\ isValidating
    /\ Pending(FETCH, Key)
    /\ IsUndefined(Get(cache, Key).data)

\* loading during a fetch that follows a failed one of the same tuple
C9_Witness ==
  /\ isLoading
  /\ Get(cache, Key).error
  /\ FETCH[Key].retryCount = 0

\* C10: every displayed price carries the currency of the request the
\* displayed coin list came from.
C10_PriceCurrencyOfData ==
  (mounted /\ ~IsUndefined(Data)) =>
    \A i \in DOMAIN Coins :
      PriceCells[i] = Cell(toUpperCase(Coins[i].current_price) \o " " \o Data.vs_currency)

====
